---- MODULE Spec2Model ----
(***************************************************************************)
(* Model of qpkg.py: packaging a directory tree into a zip archive with a  *)
(* links.json manifest of its symbolic links, and unpackaging it again.    *)
(*                                                                         *)
(* The file system is three objects under the directory /w: the source    *)
(* directory /w/src, the archive /w/x.zip and the target directory /w/out. *)
(* A path below a root is a sequence of names; a symlink target is a       *)
(* record [abs, comps]: whether the stored string is absolute, and its     *)
(* components.  Outside /w the only objects are /etc and /etc/hosts.       *)
(***************************************************************************)
EXTENDS Integers, Sequences, FiniteSets, TLC

\* Number of invocations of main in one behaviour.
MaxRuns == 2
\* Number of symlinks realpath follows before giving up.
MaxLinkDepth == 3

ManifestName == <<"links.json">>

SrcRoot == <<"w", "src">>
TgtRoot == <<"w", "out">>

\* The paths below a root that the model populates.
Paths == { <<"a.txt">>, <<"l">>, <<"links.json">>, <<"sub">>,
           <<"sub", "b.txt">>, <<"sub", "m">> }

\* The order in which scandir lists names.
NameOrder == <<"a.txt", "l", "links.json", "sub", "b.txt", "m">>

Rel(c) == [abs |-> FALSE, comps |-> c]
Abs(c) == [abs |-> TRUE, comps |-> c]
NoTarget == Rel(<<>>)

\* File contents: a text, or the JSON document json.dump wrote (the
\* sequence of its key/value pairs in document order).
Text(s) == [kind |-> "text", text |-> s, json |-> <<>>]
Json(doc) == [kind |-> "json", text |-> "", json |-> doc]
NoData == Text("")

\* File system nodes.
None == [type |-> "none", data |-> NoData, target |-> NoTarget, readable |-> TRUE]
File(d, r) == [type |-> "file", data |-> d, target |-> NoTarget, readable |-> r]
Dir(r) == [type |-> "dir", data |-> NoData, target |-> NoTarget, readable |-> r]
Link(t) == [type |-> "link", data |-> NoData, target |-> t, readable |-> TRUE]

EmptyTree == [p \in Paths |-> None]

Front(s) == SubSeq(s, 1, Len(s) - 1)

IsPrefix(a, b) == Len(a) <= Len(b) /\ SubSeq(b, 1, Len(a)) = a

\* A tree is well formed when every entry's parent is a directory.
WellFormed(t) ==
    \A p \in Paths : (t[p].type # "none" /\ Len(p) > 1) => t[Front(p)].type = "dir"

(***************************************************************************)
(* The file system as the OS services see it.  fs is a record              *)
(* [src, tgtKind, tgt]: the tree below /w/src, what /w/out is ("absent",   *)
(* "dir" or "file") and the tree below it.                                 *)
(***************************************************************************)
\* os.lstat of an absolute path: the node there, without following links.
Lstat(fs, P) ==
    IF P \in { <<>>, <<"w">>, <<"etc">>, SrcRoot } THEN Dir(TRUE)
    ELSE IF P = <<"etc", "hosts">> THEN File(Text("hosts"), TRUE)
    ELSE IF IsPrefix(SrcRoot, P) /\ SubSeq(P, 3, Len(P)) \in Paths
         THEN fs.src[SubSeq(P, 3, Len(P))]
    ELSE IF P = TgtRoot
         THEN (IF fs.tgtKind = "dir" THEN Dir(TRUE)
               ELSE IF fs.tgtKind = "file" THEN File(Text("other"), TRUE)
               ELSE None)
    ELSE IF IsPrefix(TgtRoot, P) /\ fs.tgtKind = "dir" /\ SubSeq(P, 3, Len(P)) \in Paths
         THEN fs.tgt[SubSeq(P, 3, Len(P))]
    ELSE None

\* posixpath._joinrealpath: path is the resolved prefix, rest the components
\* still to resolve; a symlink's target is resolved in place of its name.
RECURSIVE JoinRealpath(_, _, _, _)
JoinRealpath(fs, path, rest, fuel) ==
    IF rest = <<>> THEN path
    ELSE LET name == Head(rest)
             newpath == path \o <<name>>
             st == Lstat(fs, newpath)
         IN  IF name = "." THEN JoinRealpath(fs, path, Tail(rest), fuel)
             ELSE IF name = ".."
                  THEN JoinRealpath(fs, IF path = <<>> THEN <<>> ELSE Front(path),
                                    Tail(rest), fuel)
             ELSE IF st.type = "link" /\ fuel > 0
                  THEN JoinRealpath(fs, IF st.target.abs THEN <<>> ELSE path,
                                    st.target.comps \o Tail(rest), fuel - 1)
             ELSE JoinRealpath(fs, newpath, Tail(rest), fuel)

\* Path.resolve() of an absolute path.
Realpath(fs, P) == JoinRealpath(fs, <<>>, P, MaxLinkDepth)

\* Length of the longest common prefix of two sequences.
RECURSIVE CommonLen(_, _)
CommonLen(a, b) ==
    IF a = <<>> \/ b = <<>> \/ Head(a) # Head(b) THEN 0
    ELSE 1 + CommonLen(Tail(a), Tail(b))

\* os.path.relpath(P, start) of two normalised absolute paths.
Relpath(P, start) ==
    LET i == CommonLen(P, start)
        ups == [k \in 1..(Len(start) - i) |-> ".."]
        rel == ups \o SubSeq(P, i + 1, Len(P))
    IN  IF rel = <<>> THEN <<".">> ELSE rel

\* get_relative_link_target: the target string stored in the manifest for
\* the symlink at the path rel below the source root.
get_relative_link_target(fs, rel) ==
    LET target == Lstat(fs, SrcRoot \o rel).target
    IN  IF ~target.abs THEN target
        ELSE Rel(Relpath(Realpath(fs, target.comps), Realpath(fs, SrcRoot)))

\* is_valid_symlink
is_valid_symlink(fs, rel) == Lstat(fs, SrcRoot \o rel).type = "link"

\* DirEntry.is_dir(): follows symlinks.
IsDirFollow(fs, rel) == Lstat(fs, Realpath(fs, SrcRoot \o rel)).type = "dir"

\* os.scandir of the directory top below the source root, in listing order.
Scandir(fs, top) ==
    SelectSeq([i \in 1..Len(NameOrder) |-> top \o <<NameOrder[i]>>],
              LAMBDA p : p \in Paths /\ fs.src[p].type # "none")

\* os.walk(source_dir, followlinks=False): the (root, dirs, files) triples,
\* top down.  A directory that cannot be listed yields nothing (onerror is
\* None), and a symlink to a directory is listed in dirs but not entered.
RECURSIVE Walk(_, _)
RECURSIVE WalkEach(_, _)
Walk(fs, top) ==
    IF ~Lstat(fs, SrcRoot \o top).readable THEN <<>>
    ELSE LET ents == Scandir(fs, top)
             dirs == SelectSeq(ents, LAMBDA p : IsDirFollow(fs, p))
             files == SelectSeq(ents, LAMBDA p : ~IsDirFollow(fs, p))
         IN  <<[root |-> top, dirs |-> dirs, files |-> files]>>
             \o WalkEach(fs, SelectSeq(dirs, LAMBDA p : ~is_valid_symlink(fs, p)))
WalkEach(fs, ds) ==
    IF ds = <<>> THEN <<>> ELSE Walk(fs, Head(ds)) \o WalkEach(fs, Tail(ds))

\* Concatenation of a sequence of sequences.
RECURSIVE Flatten(_)
Flatten(ss) == IF ss = <<>> THEN <<>> ELSE Head(ss) \o Flatten(Tail(ss))

\* First walk of package_directory: the links dict, as the sequence of its
\* items in insertion order.  An empty target string is not recorded.
ScanLinks(fs) ==
    LET w == Walk(fs, <<>>)
        items == Flatten([i \in 1..Len(w) |-> w[i].files \o w[i].dirs])
        syms == SelectSeq(items, LAMBDA p : is_valid_symlink(fs, p)
                                            /\ get_relative_link_target(fs, p).comps # <<>>)
    IN  [i \in 1..Len(syms) |-> [path |-> syms[i], target |-> get_relative_link_target(fs, syms[i])]]

\* Second walk of package_directory: the files written to the archive, in
\* walk order.
FilesToAdd(fs) ==
    LET w == Walk(fs, <<>>)
        items == Flatten([i \in 1..Len(w) |-> w[i].files])
    IN  SelectSeq(items, LAMBDA p : ~is_valid_symlink(fs, p))

\* json.dump of the links dict and json.loads of the document.
Dump(links) == [i \in 1..Len(links) |-> <<links[i].path, links[i].target>>]
Loads(doc) == [i \in 1..Len(doc) |-> [path |-> doc[i][1], target |-> doc[i][2]]]

(***************************************************************************)
(* State.                                                                  *)
(***************************************************************************)
VARIABLES
    src,        \* the tree below the source directory
    tgtKind,    \* what the target path is: "absent", "dir" or "file"
    tgt,        \* the tree below the target directory
    zipKind,    \* the archive path: "absent", "garbage", "open" or "archive"
    zip,        \* the archive's entries, in the order they were written
    refused,    \* target paths at which the platform refuses os.symlink
    pc,         \* position of the running invocation of main
    args,       \* its --source and --target
    mode,       \* the branch main took: "pack", "unpack" or "invalid"
    exitCode,   \* exit status of the last finished run
    failedAt,   \* position at which the last finished run raised, or "none"
    links,      \* the links dict (items in order)
    todo,       \* what the running loop has still to visit
    occupied,   \* manifest paths found occupied when the restore loop reached them
    pre,        \* the file system when the run started
    prev,       \* mode, exit status and start state of the run before
    nruns       \* invocations of main so far

vars == <<src, tgtKind, tgt, zipKind, zip, refused, pc, args, mode, exitCode,
          failedAt, links, todo, occupied, pre, prev, nruns>>

FS == [src |-> src, tgtKind |-> tgtKind, tgt |-> tgt]

Snapshot == [src |-> src, tgtKind |-> tgtKind, tgt |-> tgt, zipKind |-> zipKind, zip |-> zip]

Entry(n, d) == [name |-> n, data |-> d]

\* ZipFile.read(name) / getinfo(name): the last entry written under the name.
HasEntry(entries, n) == \E i \in 1..Len(entries) : entries[i].name = n
ReadEntry(entries, n) ==
    LET last == CHOOSE i \in 1..Len(entries) :
                    /\ entries[i].name = n
                    /\ \A j \in (i + 1)..Len(entries) : entries[j].name # n
    IN  entries[last].data

\* ZipFile.namelist()
Namelist(entries) == [i \in 1..Len(entries) |-> entries[i].name]

(***************************************************************************)
(* Initial states: the source trees, the archive and the target directory  *)
(* main may be started on.                                                 *)
(***************************************************************************)
MkTree(a, l, j, d, b, m) ==
    [p \in Paths |->
        CASE p = <<"a.txt">> -> a
          [] p = <<"l">> -> l
          [] p = <<"links.json">> -> j
          [] p = <<"sub">> -> d
          [] p = <<"sub", "b.txt">> -> b
          [] p = <<"sub", "m">> -> m]

SourceTrees ==
    { t \in { MkTree(a, l, j, d, b, m) :
                a \in { None, File(Text("hello"), TRUE), File(Text("hello"), FALSE) },
                l \in { None, Link(Rel(<<"a.txt">>)), Link(Abs(<<"etc", "hosts">>)) },
                j \in { None, File(Text("user"), TRUE), Link(Rel(<<"a.txt">>)) },
                d \in { None, Dir(TRUE), Dir(FALSE) },
                b \in { None, File(Text("data"), TRUE) },
                m \in { None, Link(Abs(<<"w", "src", "l">>)), Link(Rel(<<"..", "a.txt">>)) } } :
        WellFormed(t) }

With(t, p, n) == [t EXCEPT ![p] = n]

\* What the target path holds before the first run, and the paths at which
\* the platform refuses to create a symlink.
TargetStates ==
    { [kind |-> "absent", tree |-> EmptyTree, refused |-> {}],
      [kind |-> "absent", tree |-> EmptyTree, refused |-> { <<"l">> }],
      [kind |-> "file", tree |-> EmptyTree, refused |-> {}],
      [kind |-> "dir", tree |-> EmptyTree, refused |-> {}],
      [kind |-> "dir", tree |-> With(EmptyTree, <<"l">>, File(Text("old"), TRUE)), refused |-> {}],
      [kind |-> "dir", tree |-> With(EmptyTree, <<"l">>, File(Text("old"), TRUE)),
       refused |-> { <<"l">> }],
      [kind |-> "dir", tree |-> With(EmptyTree, <<"l">>, Dir(TRUE)), refused |-> {}],
      [kind |-> "dir", tree |-> With(EmptyTree, <<"l">>, Link(Rel(<<"old">>))), refused |-> {}],
      [kind |-> "dir", tree |-> With(EmptyTree, <<"sub">>, File(Text("old"), TRUE)),
       refused |-> {}],
      [kind |-> "dir", tree |-> With(EmptyTree, <<"links.json">>, File(Text("old"), TRUE)),
       refused |-> {}] }

\* What the archive path holds before the first run: nothing, a file that
\* is no zip archive, or an archive made by another tool (no manifest).
ArchiveStates ==
    { [kind |-> "absent", entries |-> <<>>],
      [kind |-> "garbage", entries |-> <<>>],
      [kind |-> "archive", entries |-> <<Entry(<<"a.txt">>, Text("hello"))>>] }

NoRun == [mode |-> "none", exitCode |-> 0, pre |-> [src |-> EmptyTree, tgtKind |-> "absent",
          tgt |-> EmptyTree, zipKind |-> "absent", zip |-> <<>>]]

Init ==
    /\ src \in SourceTrees
    /\ \E ts \in TargetStates : tgtKind = ts.kind /\ tgt = ts.tree /\ refused = ts.refused
    /\ \E zs \in ArchiveStates : zipKind = zs.kind /\ zip = zs.entries
    /\ pc = "idle"
    /\ args = [source |-> "SRC", target |-> "ZIP"]
    /\ mode = "none"
    /\ exitCode = 0
    /\ failedAt = "none"
    /\ links = <<>>
    /\ todo = <<>>
    /\ occupied = {}
    /\ pre = NoRun.pre
    /\ prev = NoRun
    /\ nruns = 0

(***************************************************************************)
(* main                                                                    *)
(***************************************************************************)
ArgPairs ==
    { [source |-> "SRC", target |-> "ZIP"],
      [source |-> "ZIP", target |-> "TGT"],
      [source |-> "SRC", target |-> "TGT"] }

\* Path.suffix, Path.is_dir() and Path.exists() of an argument.
Suffix(a) == IF a = "ZIP" THEN ".zip" ELSE ""
IsDir(a) == a = "SRC" \/ (a = "TGT" /\ tgtKind = "dir")
Exists(a) ==
    \/ a = "SRC"
    \/ a = "ZIP" /\ zipKind # "absent"
    \/ a = "TGT" /\ tgtKind # "absent"

\* The exception handler of main: log the error and exit(1).
Raise ==
    /\ pc' = "exited"
    /\ exitCode' = 1
    /\ failedAt' = pc

\* A function returned to main, which falls off its end: exit status 0.
Return ==
    /\ pc' = "exited"
    /\ exitCode' = 0
    /\ failedAt' = "none"

\* main: dispatch on the arguments.
Main ==
    /\ pc \in { "idle", "exited" }
    /\ nruns < MaxRuns
    /\ \E a \in ArgPairs :
        /\ args' = a
        /\ IF IsDir(a.source) /\ Suffix(a.target) = ".zip"
           THEN mode' = "pack" /\ pc' = "p_scan"
                /\ UNCHANGED <<exitCode, failedAt>>
           ELSE IF Suffix(a.source) = ".zip" /\ (IsDir(a.target) \/ ~Exists(a.target))
           THEN mode' = "unpack" /\ pc' = "u_mkdir"
                /\ UNCHANGED <<exitCode, failedAt>>
           ELSE mode' = "invalid" /\ pc' = "exited" /\ exitCode' = 1
                /\ failedAt' = "none"
    /\ nruns' = nruns + 1
    /\ pre' = Snapshot
    /\ prev' = [mode |-> mode, exitCode |-> exitCode, pre |-> pre]
    /\ links' = <<>>
    /\ todo' = <<>>
    /\ occupied' = {}
    /\ UNCHANGED <<src, tgtKind, tgt, zipKind, zip, refused>>

(***************************************************************************)
(* package_directory                                                       *)
(***************************************************************************)
\* Lines 48-65: the first walk collects the symlinks.
PackScan ==
    /\ pc = "p_scan"
    /\ links' = ScanLinks(FS)
    /\ pc' = "p_manifest"
    /\ UNCHANGED <<src, tgtKind, tgt, zipKind, zip, refused, args, mode, exitCode,
                   failedAt, todo, occupied, pre, prev, nruns>>

\* The tree below one of the two roots, and the file system with it replaced.
TreeOf(fs, root) == IF root = SrcRoot THEN fs.src ELSE fs.tgt
WithTree(fs, root, t) == IF root = SrcRoot THEN [fs EXCEPT !.src = t] ELSE [fs EXCEPT !.tgt = t]

\* open(path, 'w') of the path rel below root: the path is followed through
\* symlinks; the file there is created or truncated.  ok is FALSE when the
\* open raises (a directory, a missing or non-directory parent, or a place
\* outside the tree).
OpenWrite(fs, root, rel, data) ==
    LET real == Realpath(fs, root \o rel)
        at == SubSeq(real, 3, Len(real))
        inside == IsPrefix(root, real) /\ at \in Paths
        parentOk == inside /\ Lstat(fs, Front(real)).type = "dir"
        node == IF inside THEN TreeOf(fs, root)[at] ELSE None
    IN  IF parentOk /\ node.type # "dir"
        THEN [ok |-> TRUE,
              tree |-> With(TreeOf(fs, root), at,
                            File(data, IF node.type = "file" THEN node.readable ELSE TRUE))]
        ELSE [ok |-> FALSE, tree |-> TreeOf(fs, root)]

\* Lines 67-71: json.dump of links into source_dir/links.json.
PackWriteManifest ==
    /\ pc = "p_manifest"
    /\ LET w == OpenWrite(FS, SrcRoot, ManifestName, Json(Dump(links)))
       IN  IF w.ok
           THEN /\ src' = w.tree
                /\ pc' = "p_zipopen"
                /\ UNCHANGED <<exitCode, failedAt>>
           ELSE /\ Raise
                /\ UNCHANGED src
    /\ UNCHANGED <<tgtKind, tgt, zipKind, zip, refused, args, mode, links, todo,
                   occupied, pre, prev, nruns>>

\* Line 75: ZipFile(target_zip, 'w') creates or truncates the archive file.
PackOpenZip ==
    /\ pc = "p_zipopen"
    /\ zipKind' = "open"
    /\ zip' = <<>>
    /\ pc' = "p_zipmanifest"
    /\ UNCHANGED <<src, tgtKind, tgt, refused, args, mode, exitCode, failedAt, links,
                   todo, occupied, pre, prev, nruns>>

\* ZipFile.write(path, arcname): stat and open the file at path (following
\* symlinks) and append its bytes as an entry.  ok is FALSE when the file
\* is missing or cannot be read.
ZipWrite(fs, entries, rel, arcname) ==
    LET node == Lstat(fs, Realpath(fs, SrcRoot \o rel))
    IN  IF node.type = "file" /\ node.readable
        THEN [ok |-> TRUE, entries |-> Append(entries, Entry(arcname, node.data))]
        ELSE [ok |-> FALSE, entries |-> entries]

\* ZipFile.__exit__ on an exception: the archive is closed, its central
\* directory written, and the exception goes on to main.
ZipAbort ==
    /\ zipKind' = "archive"
    /\ Raise

\* Lines 76-77: the manifest entry; then the second walk starts.
PackAddManifest ==
    /\ pc = "p_zipmanifest"
    /\ LET w == ZipWrite(FS, zip, ManifestName, ManifestName)
       IN  IF w.ok
           THEN /\ zip' = w.entries
                /\ todo' = FilesToAdd(FS)
                /\ pc' = "p_zipfiles"
                /\ UNCHANGED <<zipKind, exitCode, failedAt>>
           ELSE /\ ZipAbort
                /\ UNCHANGED <<zip, todo>>
    /\ UNCHANGED <<src, tgtKind, tgt, refused, args, mode, links, occupied, pre, prev, nruns>>

\* Lines 80-86: one file of the second walk is written to the archive.
PackAddFile ==
    /\ pc = "p_zipfiles"
    /\ todo # <<>>
    /\ LET w == ZipWrite(FS, zip, Head(todo), Head(todo))
       IN  IF w.ok
           THEN /\ zip' = w.entries
                /\ todo' = Tail(todo)
                /\ UNCHANGED <<zipKind, pc, exitCode, failedAt>>
           ELSE /\ ZipAbort
                /\ UNCHANGED <<zip, todo>>
    /\ UNCHANGED <<src, tgtKind, tgt, refused, args, mode, links, occupied, pre, prev, nruns>>

\* End of the with block: the archive is closed.
PackCloseZip ==
    /\ pc = "p_zipfiles"
    /\ todo = <<>>
    /\ zipKind' = "archive"
    /\ pc' = "p_cleanup"
    /\ UNCHANGED <<src, tgtKind, tgt, zip, refused, args, mode, exitCode, failedAt,
                   links, todo, occupied, pre, prev, nruns>>

\* Lines 88-90: links_json_path.unlink() removes the name links.json (the
\* file, or the symlink when it is one), and the function returns.
PackCleanup ==
    /\ pc = "p_cleanup"
    /\ IF src[ManifestName].type \in { "file", "link" }
       THEN src' = With(src, ManifestName, None) /\ Return
       ELSE UNCHANGED src /\ Raise
    /\ UNCHANGED <<tgtKind, tgt, zipKind, zip, refused, args, mode, links, todo,
                   occupied, pre, prev, nruns>>

(***************************************************************************)
(* unpackage_directory                                                     *)
(***************************************************************************)
\* Path.exists(): follows symlinks.
PathExists(fs, P) == Lstat(fs, Realpath(fs, P)).type # "none"
PathIsDir(fs, P) == Lstat(fs, Realpath(fs, P)).type = "dir"

\* mkdir(parents=True, exist_ok=True) / os.makedirs of the directory rel
\* below root: missing directories on the way are created; ok is FALSE when
\* a name on the way exists and is no directory.
MakeDirs(fs, root, rel) ==
    LET prefixes == { SubSeq(rel, 1, k) : k \in 1..Len(rel) }
        t == TreeOf(fs, root)
    IN  IF \A q \in prefixes :
              q \in Paths /\ (t[q].type = "none" \/ PathIsDir(fs, root \o q))
        THEN [ok |-> TRUE,
              tree |-> [p \in Paths |-> IF p \in prefixes /\ t[p].type = "none"
                                        THEN Dir(TRUE) ELSE t[p]]]
        ELSE [ok |-> FALSE, tree |-> t]

\* Line 100: target_dir.mkdir(parents=True, exist_ok=True)
UnpackMkdir ==
    /\ pc = "u_mkdir"
    /\ IF tgtKind = "file"
       THEN Raise /\ UNCHANGED tgtKind
       ELSE /\ tgtKind' = "dir"
            /\ pc' = "u_open"
            /\ UNCHANGED <<exitCode, failedAt>>
    /\ UNCHANGED <<src, tgt, zipKind, zip, refused, args, mode, links, todo, occupied,
                   pre, prev, nruns>>

\* Line 103: ZipFile(source_zip, 'r') raises unless the file is a zip archive.
UnpackOpen ==
    /\ pc = "u_open"
    /\ IF zipKind = "archive"
       THEN pc' = "u_read" /\ UNCHANGED <<exitCode, failedAt>>
       ELSE Raise
    /\ UNCHANGED <<src, tgtKind, tgt, zipKind, zip, refused, args, mode, links, todo,
                   occupied, pre, prev, nruns>>

\* Lines 105-109: zf.read('links.json') raises KeyError when the archive has
\* no such entry, json.loads raises when it is no JSON document; then the
\* member loop starts over the names other than links.json.
UnpackReadManifestLenient ==
    /\ pc = "u_read"
    /\ links' = IF HasEntry(zip, ManifestName) /\ ReadEntry(zip, ManifestName).kind = "json"
                THEN Loads(ReadEntry(zip, ManifestName).json)
                ELSE <<>>
    /\ todo' = SelectSeq(Namelist(zip), LAMBDA n : n # ManifestName)
    /\ pc' = "u_extract"
    /\ UNCHANGED <<src, tgtKind, tgt, zipKind, zip, refused, args, mode, exitCode,
                   failedAt, occupied, pre, prev, nruns>>

UnpackReadManifest ==
    /\ pc = "u_read"
    /\ IF HasEntry(zip, ManifestName) /\ ReadEntry(zip, ManifestName).kind = "json"
       THEN /\ links' = Loads(ReadEntry(zip, ManifestName).json)
            /\ todo' = SelectSeq(Namelist(zip), LAMBDA n : n # ManifestName)
            /\ pc' = "u_extract"
            /\ UNCHANGED <<exitCode, failedAt>>
       ELSE /\ Raise
            /\ UNCHANGED <<links, todo>>
    /\ UNCHANGED <<src, tgtKind, tgt, zipKind, zip, refused, args, mode, occupied,
                   pre, prev, nruns>>

\* ZipFile.extract(member, target_dir): create the missing upper directories,
\* then open the target path for writing and copy the entry's bytes.
ZipExtract(fs, entries, member) ==
    LET md == IF Len(member) > 1 /\ ~PathExists(fs, TgtRoot \o Front(member))
              THEN MakeDirs(fs, TgtRoot, Front(member))
              ELSE [ok |-> TRUE, tree |-> fs.tgt]
        w == OpenWrite(WithTree(fs, TgtRoot, md.tree), TgtRoot, member,
                       ReadEntry(entries, member))
    IN  IF md.ok /\ w.ok THEN w ELSE [ok |-> FALSE, tree |-> md.tree]

\* Lines 109-112: one member is extracted.
UnpackExtract ==
    /\ pc = "u_extract"
    /\ todo # <<>>
    /\ LET x == ZipExtract(FS, zip, Head(todo))
       IN  /\ tgt' = x.tree
           /\ IF x.ok
              THEN todo' = Tail(todo) /\ UNCHANGED <<pc, exitCode, failedAt>>
              ELSE Raise /\ UNCHANGED todo
    /\ UNCHANGED <<src, tgtKind, zipKind, zip, refused, args, mode, links, occupied,
                   pre, prev, nruns>>

\* Lines 114-118: a links.json in the target directory is removed; the
\* restore loop starts.
UnpackRemoveManifest ==
    /\ pc = "u_extract"
    /\ todo = <<>>
    /\ IF PathExists(FS, TgtRoot \o ManifestName)
       THEN IF tgt[ManifestName].type = "dir"
            THEN Raise /\ UNCHANGED <<tgt, todo>>
            ELSE /\ tgt' = With(tgt, ManifestName, None)
                 /\ todo' = links
                 /\ pc' = "u_restore"
                 /\ UNCHANGED <<exitCode, failedAt>>
       ELSE /\ todo' = links
            /\ pc' = "u_restore"
            /\ UNCHANGED <<tgt, exitCode, failedAt>>
    /\ UNCHANGED <<src, tgtKind, zipKind, zip, refused, args, mode, links, occupied,
                   pre, prev, nruns>>

\* Lines 122-138: one manifest entry is restored.  Only os.symlink is inside
\* the try block; mkdir and unlink raise to main.
UnpackRestore ==
    /\ pc = "u_restore"
    /\ todo # <<>>
    /\ LET e == Head(todo)
           md == MakeDirs(FS, TgtRoot, Front(e.path))
           fs1 == WithTree(FS, TgtRoot, md.tree)
           present == PathExists(fs1, TgtRoot \o e.path) \/ md.tree[e.path].type = "link"
           cleared == IF present THEN With(md.tree, e.path, None) ELSE md.tree
       IN  IF ~md.ok
           THEN Raise /\ UNCHANGED <<tgt, todo, occupied>>
           ELSE /\ occupied' = IF present THEN occupied \cup { e.path } ELSE occupied
                /\ IF present /\ md.tree[e.path].type = "dir"
                   THEN /\ tgt' = md.tree
                        /\ Raise
                        /\ UNCHANGED todo
                   ELSE /\ tgt' = IF e.path \in refused THEN cleared
                                  ELSE With(cleared, e.path, Link(e.target))
                        /\ todo' = Tail(todo)
                        /\ UNCHANGED <<pc, exitCode, failedAt>>
    /\ UNCHANGED <<src, tgtKind, zipKind, zip, refused, args, mode, links, pre, prev, nruns>>

\* Line 140: the loop is over and the function returns.
UnpackDone ==
    /\ pc = "u_restore"
    /\ todo = <<>>
    /\ Return
    /\ UNCHANGED <<src, tgtKind, tgt, zipKind, zip, refused, args, mode, links, todo,
                   occupied, pre, prev, nruns>>

Next ==
    \/ Main
    \/ PackScan
    \/ PackWriteManifest
    \/ PackOpenZip
    \/ PackAddManifest
    \/ PackAddFile
    \/ PackCloseZip
    \/ PackCleanup
    \/ UnpackMkdir
    \/ UnpackOpen
    \/ UnpackReadManifest
    \/ UnpackExtract
    \/ UnpackRemoveManifest
    \/ UnpackRestore
    \/ UnpackDone

Spec == Init /\ [][Next]_vars

\* Sanity: positions are known, trees are well formed, and nothing lies below
\* a target path that is no directory.
TypeOK ==
    /\ pc \in { "idle", "exited", "p_scan", "p_manifest", "p_zipopen", "p_zipmanifest",
                "p_zipfiles", "p_cleanup", "u_mkdir", "u_open", "u_read", "u_extract",
                "u_restore" }
    /\ WellFormed(src) /\ WellFormed(tgt)
    /\ tgtKind # "dir" => tgt = EmptyTree
    /\ nruns \in 0..MaxRuns

(***************************************************************************)
(* Properties.                                                             *)
(***************************************************************************)
\* The last run took the branch m of main and has ended.
Ended(m) == pc = "exited" /\ mode = m

AllReadable(t) == \A p \in Paths : t[p].readable

Count(entries, n) == Cardinality({ i \in 1..Len(entries) : entries[i].name = n })

\* The target string the manifest holds for the path p.
ManifestTarget(ls, p) == (CHOOSE i \in 1..Len(ls) : ls[i].path = p)

\* C1: packing a readable source tree and unpacking the archive into a fresh
\* target directory on a platform that refuses no symlink reproduces every
\* regular file of the source with its content and every symlink with its
\* raw target (relative) or its target relative to the source root (absolute).
C1_RoundTrip ==
    ( /\ Ended("unpack") /\ exitCode = 0
      /\ prev.mode = "pack" /\ prev.exitCode = 0
      /\ AllReadable(prev.pre.src)
      /\ pre.tgtKind = "absent"
      /\ refused = {} )
    => LET T == prev.pre.src
           fs0 == [src |-> T, tgtKind |-> "absent", tgt |-> EmptyTree]
       IN  \A p \in Paths :
             /\ T[p].type = "file" => tgt[p] = File(T[p].data, TRUE)
             /\ T[p].type = "link" => tgt[p] = Link(get_relative_link_target(fs0, p))

\* C2: after a successful pack the archive holds exactly one links.json entry
\* and exactly one entry per regular file of the source tree, and nothing else.
C2_ArchiveEntries ==
    (Ended("pack") /\ exitCode = 0)
    => LET T == pre.src
       IN  /\ Count(zip, ManifestName) = 1
           /\ \A p \in Paths \ { ManifestName } :
                 Count(zip, p) = (IF T[p].type = "file" THEN 1 ELSE 0)

\* C3: when a pack run that wrote the manifest file ends, the manifest file
\* at source_dir/links.json is gone, whether the pack succeeded or failed.
C3_ManifestFileRemoved ==
    (Ended("pack") /\ failedAt \notin { "p_scan", "p_manifest" })
    => ~( /\ PathExists(FS, SrcRoot \o ManifestName)
          /\ Lstat(FS, Realpath(FS, SrcRoot \o ManifestName)).data.kind = "json" )

\* C4: a pack that fails ends with a non-zero exit status and leaves no
\* readable archive with a manifest at the target path.
C4_PackAllOrNothing ==
    (Ended("pack") /\ failedAt # "none")
    => /\ exitCode # 0
       /\ ~(zipKind = "archive" /\ HasEntry(zip, ManifestName))

\* C5: a pack of a tree with an unreadable subdirectory fails and writes no
\* archive.
C5_UnreadableSubtreeFails ==
    (Ended("pack") /\ \E p \in Paths : pre.src[p].type = "dir" /\ ~pre.src[p].readable)
    => /\ exitCode # 0
       /\ zipKind = pre.zipKind /\ zip = pre.zip

\* C6: every manifest path that was occupied when the restore loop reached it
\* (and at which the platform allows a symlink) ends as a symlink with the
\* manifest's target.
C6_CollisionReplaced ==
    Ended("unpack")
    => \A p \in occupied \ refused :
          tgt[p] = Link(links[ManifestTarget(links, p)].target)

\* C7: once the restore loop has started, the run ends with exit status 0 and
\* every manifest entry other than the failing ones is restored.
C7_RestoreContinues ==
    (Ended("unpack") /\ failedAt \in { "none", "u_restore" })
    => /\ exitCode = 0
       /\ \A i \in 1..Len(links) :
             ( /\ links[i].path \notin refused
               /\ ~(failedAt = "u_restore" /\ links[i] = Head(todo)) )
             => tgt[links[i].path] = Link(links[i].target)

\* C8: unpacking an archive that has no links.json entry ends with a non-zero
\* exit status, and nothing below the target directory has been created,
\* changed or removed.
C8_MissingManifestFails ==
    (Ended("unpack") /\ pre.zipKind = "archive" /\ ~HasEntry(pre.zip, ManifestName))
    => /\ exitCode # 0
       /\ tgt = pre.tgt

\* C8 witness: such a run, on an archive that has an entry to extract, has
\* ended at the manifest read.
C8_Witness ==
    /\ Ended("unpack")
    /\ pre.zipKind = "archive" /\ ~HasEntry(pre.zip, ManifestName)
    /\ Len(pre.zip) > 0
    /\ failedAt = "u_read"

\* The arguments do not name a directory to pack into a .zip or a readable
\* archive to unpack into a directory.
InvalidCombination ==
    \/ mode = "invalid"
    \/ args.source = "ZIP" /\ pre.zipKind # "archive"

\* C9: a run on an invalid source/target combination ends with a non-zero
\* exit status and the file system as it was.
C9_InvalidArgsNoEffect ==
    (pc = "exited" /\ nruns > 0 /\ InvalidCombination)
    => /\ exitCode # 0
       /\ Snapshot = pre

\* C10: a successful pack leaves the source tree as it was.
C10_SourceUnchanged ==
    (Ended("pack") /\ exitCode = 0) => src = pre.src

====
